---- MODULE Spec2Model ----
(***************************************************************************)
(* Model of task_distribution.py: the Serial Sequencer                     *)
(* (sort_by_repo_name_and_add_serial), the Weekly Batcher                  *)
(* (create_capacity_based_batches), the Capacity Allocator                 *)
(* (distribute_tasks_by_capacity_with_serial_sequence) and the             *)
(* Distribution Reporter (create_folder_structure_and_save), driven in the *)
(* order main() calls them.                                                *)
(*                                                                         *)
(* Repository names are modelled by the numbers 1..3, whose order stands   *)
(* for the order pandas sorts the names in.  A record that lacks the       *)
(* repo_name key holds NaN in that column (pd.DataFrame fills the gap).    *)
(* Team indexes keep Python's 0-based values; TLA+ sequences are 1-based,  *)
(* so teams[i + 1] is Python's teams[i].                                   *)
(* The report fields tasks_per_developer and days_needed (floating point)  *)
(* and the Markdown text are left out: nothing below reads them.           *)
(***************************************************************************)
EXTENDS Integers, Sequences, FiniteSets, TLC

\* ---------------------------------------------------------------- bounds
MaxLen == 3          \* longest raw (unsorted) input read from the file
MaxRepoTasks == 3    \* most tasks of one repository in a sequenced input
MaxTeams == 2        \* largest roster
MaxDevs == 2         \* most developers entered for one team
MaxCap == 3          \* largest weekly_capacity of a directly supplied roster

\* ------------------------------------------------------ program constants
TASKS_PER_DAY == 5   \* weekly_capacity = num_developers * 5 * 5
WORKING_DAYS == 5
NaN == 0             \* the repo_name of a record without that key
None == 0            \* serial_range min/max of a team without tasks
NoSerial == 0        \* serial_no of a row of a frame without that column

Repos == 1 .. 3

\* ---------------------------------------------------------------- helpers
RECURSIVE SumSeq(_)
SumSeq(s) == IF s = <<>> THEN 0 ELSE Head(s) + SumSeq(Tail(s))

Min(S) == CHOOSE x \in S : \A y \in S : x <= y
Max(S) == CHOOSE x \in S : \A y \in S : x >= y

RECURSIVE SeqsUpTo(_, _)
SeqsUpTo(S, n) ==
    IF n = 0 THEN {<<>>}
    ELSE LET shorter == SeqsUpTo(S, n - 1)
         IN  shorter \cup {Append(s, x) : s \in {t \in shorter : Len(t) = n - 1}, x \in S}

RECURSIVE Repeat(_, _)
Repeat(x, n) == IF n = 0 THEN <<>> ELSE <<x>> \o Repeat(x, n - 1)

\* a slip: integer division in place of math.ceil
FloorDiv(a, b) == a \div b

\* math.ceil(a / b) for a >= 0, b > 0
Ceil(a, b) == (a + b - 1) \div b

VARIABLES
    pc,                  \* where main() stands
    df,                  \* the frame jsonl_to_csv returns: rows [repo_name, pos]
    sorted_df,           \* the frame of step 2: rows [serial_no, repo_name, pos]
    teams_info,          \* the roster: [team_number, num_developers, weekly_capacity]
    weekly_batches,      \* the list create_capacity_based_batches returns
    week_num,            \* the week create_folder_structure_and_save is at
    repo_list,           \* the groups of the current batch still to assign
    teams,               \* the allocation of the current week
    current_team_idx,    \* the team pointer (0-based)
    decisions,           \* ghost: what the allocator did for each group this week
    allocations,         \* ghost: the allocation distribute_... returned, per week
    distribution_report, \* weekly_distributions of the report object
    files                \* the files and directories created so far

vars == <<pc, df, sorted_df, teams_info, weekly_batches, week_num, repo_list,
          teams, current_team_idx, decisions, allocations, distribution_report,
          files>>

\* ------------------------------------------------------- Serial Sequencer
\* 'repo_name' in df.columns: the column exists as soon as one record has the key
HasRepoColumn(frame) == \E i \in DOMAIN frame : frame[i].repo_name # NaN

\* sort_values puts the rows without a value last (na_position = 'last')
SortKey(row) == IF row.repo_name = NaN THEN Cardinality(Repos) + 1 ELSE row.repo_name

\* df.sort_values('repo_name'): the default kind is quicksort, which pandas
\* documents as not stable.  Every ordering of the rows with ascending
\* repo_name is an outcome; rows of equal repo_name may come in any order.
SortOrders(frame) ==
    {p \in [DOMAIN frame -> DOMAIN frame] :
        /\ \A i, j \in DOMAIN frame : i # j => p[i] # p[j]
        /\ \A i, j \in DOMAIN frame :
              i < j => SortKey(frame[p[i]]) <= SortKey(frame[p[j]])}

\* reset_index(drop = True), then insert(0, 'serial_no', range(1, len + 1))
AddSerial(frame, p) ==
    [i \in DOMAIN frame |->
        [serial_no |-> i, repo_name |-> frame[p[i]].repo_name, pos |-> frame[p[i]].pos]]

\* the early return: the frame as it is, without a serial_no column
Unsequenced(frame) ==
    [i \in DOMAIN frame |->
        [serial_no |-> NoSerial, repo_name |-> frame[i].repo_name, pos |-> frame[i].pos]]

sort_by_repo_name_and_add_serial(frame, p) ==
    IF ~HasRepoColumn(frame) THEN Unsequenced(frame) ELSE AddSerial(frame, p)

\* -------------------------------------------------------- Weekly Batcher
total_weekly_capacity(ti) == SumSeq([i \in DOMAIN ti |-> ti[i].weekly_capacity])

\* the batches list, for total_weekly_capacity > 0
create_capacity_based_batches(frame, ti) ==
    LET total == total_weekly_capacity(ti)
        total_tasks == Len(frame)
        weeks_needed == Ceil(total_tasks, total)
        weeks == SelectSeq([w \in 1 .. weeks_needed |-> w - 1],
                           LAMBDA week : week * total < total_tasks)
    IN  [k \in DOMAIN weeks |->
            LET start_idx == weeks[k] * total
                end_idx == IF (weeks[k] + 1) * total < total_tasks
                           THEN (weeks[k] + 1) * total ELSE total_tasks
            IN  SubSeq(frame, start_idx + 1, end_idx)]

\* ----------------------------------------------------- Capacity Allocator
Serials(tasks) == {tasks[i].serial_no : i \in DOMAIN tasks}

\* sort_values('serial_no') of rows with distinct serial numbers
RECURSIVE SortBySerial(_)
SortBySerial(tasks) ==
    IF tasks = <<>> THEN <<>>
    ELSE LET m == Min(Serials(tasks))
             i == CHOOSE k \in DOMAIN tasks : tasks[k].serial_no = m
         IN  <<tasks[i]>> \o
             SortBySerial(SubSeq(tasks, 1, i - 1) \o SubSeq(tasks, i + 1, Len(tasks)))

\* one entry of repo_list (lines 110-114)
RepoInfo(batch_df, repo_name) ==
    LET group == SelectSeq(batch_df, LAMBDA t : t.repo_name = repo_name)
    IN  [repo_name |-> repo_name, tasks |-> SortBySerial(group), task_count |-> Len(group)]

\* groupby('repo_name') leaves out the rows whose repo_name is NaN (dropna)
GroupKeys(batch_df) == {batch_df[i].repo_name : i \in DOMAIN batch_df} \ {NaN}

\* repo_list after repo_list.sort(key = min serial_no)
RECURSIVE SortByMinSerial(_)
SortByMinSerial(infos) ==
    IF infos = {} THEN <<>>
    ELSE LET first == CHOOSE g \in infos :
                 \A h \in infos : Min(Serials(g.tasks)) <= Min(Serials(h.tasks))
         IN  <<first>> \o SortByMinSerial(infos \ {first})

\* a slip: grouping by serial_no, which makes every task a group of its own
BuildRepoListPerTask(batch_df) ==
    [i \in DOMAIN batch_df |->
        [repo_name |-> batch_df[i].repo_name, tasks |-> <<batch_df[i]>>, task_count |-> 1]]

BuildRepoList(batch_df) ==
    SortByMinSerial({RepoInfo(batch_df, r) : r \in GroupKeys(batch_df)})

\* lines 120-128
InitTeams(ti) ==
    [i \in DOMAIN ti |->
        [tasks |-> <<>>, assigned_tasks |-> 0,
         remaining_capacity |-> ti[i].weekly_capacity,
         serial_range |-> [min |-> None, max |-> None]]]

\* a slip: ties for the largest remaining capacity go to the last team
MaxRemainingTeamLast(tms) ==
    Max({i \in 0 .. Len(tms) - 1 :
            \A j \in 0 .. Len(tms) - 1 :
                tms[i + 1].remaining_capacity >= tms[j + 1].remaining_capacity})

\* max(range(len(teams)), key = remaining_capacity): the first maximal index
MaxRemainingTeam(tms) ==
    Min({i \in 0 .. Len(tms) - 1 :
            \A j \in 0 .. Len(tms) - 1 :
                tms[i + 1].remaining_capacity >= tms[j + 1].remaining_capacity})

\* a slip: the current team is kept as long as it has any capacity left
SelectTargetAnyRoom(tms, idx, task_count) ==
    IF tms[idx + 1].remaining_capacity > 0
    THEN [target_team |-> idx, current_team_idx |-> idx, branch |-> "current"]
    ELSE LET fits == {i \in idx + 1 .. Len(tms) - 1 :
                         tms[i + 1].remaining_capacity >= task_count}
         IN  IF fits # {}
             THEN [target_team |-> Min(fits), current_team_idx |-> Min(fits),
                   branch |-> "next"]
             ELSE [target_team |-> MaxRemainingTeam(tms), current_team_idx |-> idx,
                   branch |-> "fallback"]

\* lines 135-150: the team that gets the group, and the pointer afterwards
SelectTarget(tms, idx, task_count) ==
    IF tms[idx + 1].remaining_capacity >= task_count
    THEN [target_team |-> idx, current_team_idx |-> idx, branch |-> "current"]
    ELSE LET fits == {i \in idx + 1 .. Len(tms) - 1 :
                         tms[i + 1].remaining_capacity >= task_count}
         IN  IF fits # {}
             THEN [target_team |-> Min(fits), current_team_idx |-> Min(fits),
                   branch |-> "next"]
             ELSE [target_team |-> MaxRemainingTeam(tms), current_team_idx |-> idx,
                   branch |-> "fallback"]

\* a slip: the team's frame is replaced by the new group instead of extended
AssignRepositoryOverwrite(tms, target_team, repo_info) ==
    LET t == tms[target_team + 1]
    IN  [tms EXCEPT ![target_team + 1] =
            [tasks |-> repo_info.tasks,
             serial_range |->
                 [min |-> IF t.tasks = <<>> THEN Min(Serials(repo_info.tasks))
                          ELSE t.serial_range.min,
                  max |-> Max(Serials(repo_info.tasks))],
             assigned_tasks |-> t.assigned_tasks + repo_info.task_count,
             remaining_capacity |-> t.remaining_capacity - repo_info.task_count]]

\* a slip: serial_range min is set at every assignment, not only the first
AssignRepositoryMinEachTime(tms, target_team, repo_info) ==
    LET t == tms[target_team + 1]
    IN  [tms EXCEPT ![target_team + 1] =
            [tasks |-> IF t.tasks = <<>> THEN repo_info.tasks
                       ELSE t.tasks \o repo_info.tasks,
             serial_range |->
                 [min |-> Min(Serials(repo_info.tasks)),
                  max |-> Max(Serials(repo_info.tasks))],
             assigned_tasks |-> t.assigned_tasks + repo_info.task_count,
             remaining_capacity |-> t.remaining_capacity - repo_info.task_count]]

\* lines 153-161
AssignRepository(tms, target_team, repo_info) ==
    LET t == tms[target_team + 1]
    IN  [tms EXCEPT ![target_team + 1] =
            [tasks |-> IF t.tasks = <<>> THEN repo_info.tasks
                       ELSE t.tasks \o repo_info.tasks,
             serial_range |->
                 [min |-> IF t.tasks = <<>> THEN Min(Serials(repo_info.tasks))
                          ELSE t.serial_range.min,
                  max |-> Max(Serials(repo_info.tasks))],
             assigned_tasks |-> t.assigned_tasks + repo_info.task_count,
             remaining_capacity |-> t.remaining_capacity - repo_info.task_count]]

\* lines 163-166
SortTeamTasks(tms) ==
    [i \in DOMAIN tms |-> [tms[i] EXCEPT !.tasks = SortBySerial(@)]]

\* --------------------------------------------------- Distribution Reporter
RepositoriesOf(tasks) == {tasks[i].repo_name : i \in DOMAIN tasks} \ {NaN}

\* a slip: the remaining capacity is clipped at zero in the report
TeamReportClipped(team_info, team_data) ==
    [team_number |-> team_info.team_number,
     weekly_capacity |-> team_info.weekly_capacity,
     assigned_tasks |-> team_data.assigned_tasks,
     remaining_capacity |-> IF team_data.remaining_capacity < 0 THEN 0
                            ELSE team_data.remaining_capacity,
     repositories |-> Cardinality(RepositoriesOf(team_data.tasks)),
     serial_range |-> team_data.serial_range]

\* lines 228-240: the entry of one team in week_distribution['teams']
TeamReport(team_info, team_data) ==
    [team_number |-> team_info.team_number,
     weekly_capacity |-> team_info.weekly_capacity,
     assigned_tasks |-> team_data.assigned_tasks,
     remaining_capacity |-> team_data.remaining_capacity,
     repositories |-> Cardinality(RepositoriesOf(team_data.tasks)),
     serial_range |-> team_data.serial_range]

\* lines 193-198 and 242
WeekDistribution(week, batch_df, ti, tms) ==
    [week |-> week,
     total_tasks |-> Len(batch_df),
     serial_range |-> [min |-> Min(Serials(batch_df)), max |-> Max(Serials(batch_df))],
     teams |-> [i \in DOMAIN tms |-> TeamReport(ti[i], tms[i])]]

\* the artefacts on disk
CompleteCsv == <<"complete_csv", 0, 0>>
SortedCsv == <<"sorted_csv", 0, 0>>
BaseDir == <<"task_distribution", 0, 0>>
WeekFolder(w) == <<"week_folder", w, 0>>
TeamFile(w, t) == <<"team_csv", w, t>>
ReportMd == <<"distribution_report_md", 0, 0>>

\* ------------------------------------------------------------------ inputs
Frame(names) == [i \in DOMAIN names |-> [repo_name |-> names[i], pos |-> i]]

\* what the input file may hold: any short list of records, with or without repo_name
RawFrames == {Frame(names) : names \in SeqsUpTo({1, 2, NaN}, MaxLen)}

\* longer inputs whose records already come grouped by repository, in name order
GroupedFrame(c) == Frame(Repeat(1, c[1]) \o Repeat(2, c[2]) \o Repeat(3, c[3]))

\* the worked scenario: repositories A: 5, B: 4, C: 3 and two teams of capacity 6
ScenarioCounts == <<5, 4, 3>>
ScenarioCapacity == <<6, 6>>

GroupedFrames ==
    {GroupedFrame(c) : c \in [Repos -> 0 .. MaxRepoTasks] \cup {ScenarioCounts}}

GivenCapacities ==
    UNION {[1 .. n -> 0 .. MaxCap] : n \in 0 .. MaxTeams} \cup {ScenarioCapacity}

Identity(frame) == [i \in DOMAIN frame |-> i]

TypeOK ==
    /\ pc \in {"start", "loaded", "sorted", "teams", "batched", "week", "assign",
               "done", "error"}
    /\ week_num \in Nat
    /\ current_team_idx \in Nat

\* main() before step 1, or after step 2 on an input that was grouped already
Init ==
    /\ \/ /\ pc = "start"
          /\ df \in RawFrames
          /\ sorted_df = <<>>
          /\ files = {}
       \/ /\ pc = "sorted"
          /\ df \in GroupedFrames
          /\ sorted_df = sort_by_repo_name_and_add_serial(df, Identity(df))
          /\ files = {CompleteCsv, SortedCsv}
    /\ teams_info = <<>>
    /\ weekly_batches = <<>>
    /\ week_num = 0
    /\ repo_list = <<>>
    /\ teams = <<>>
    /\ current_team_idx = 0
    /\ decisions = <<>>
    /\ allocations = <<>>
    /\ distribution_report = <<>>

\* ----------------------------------------------------------------- actions
\* main, step 1: jsonl_to_csv writes the complete CSV
JsonlToCsv ==
    /\ pc = "start"
    /\ files' = files \cup {CompleteCsv}
    /\ pc' = "loaded"
    /\ UNCHANGED <<df, sorted_df, teams_info, weekly_batches, week_num, repo_list,
                   teams, current_team_idx, decisions, allocations,
                   distribution_report>>

\* main, step 2: sort, add serial numbers, save the sorted CSV
SortAndAddSerial ==
    /\ pc = "loaded"
    /\ \E p \in SortOrders(df) :
          sorted_df' = sort_by_repo_name_and_add_serial(df, p)
    /\ files' = files \cup {SortedCsv}
    /\ pc' = "sorted"
    /\ UNCHANGED <<df, teams_info, weekly_batches, week_num, repo_list, teams,
                   current_team_idx, decisions, allocations, distribution_report>>

\* main, step 3: the roster typed in; every team has at least one developer
GetTeamInfo ==
    /\ pc = "sorted"
    /\ \E num_teams \in 0 .. MaxTeams :
          \E num_developers \in [1 .. num_teams -> 1 .. MaxDevs] :
             teams_info' =
                 [i \in 1 .. num_teams |->
                     [team_number |-> i,
                      weekly_capacity |-> num_developers[i] * TASKS_PER_DAY * WORKING_DAYS]]
    /\ pc' = "teams"
    /\ UNCHANGED <<df, sorted_df, weekly_batches, week_num, repo_list, teams,
                   current_team_idx, decisions, allocations, distribution_report,
                   files>>

\* a roster handed to the batcher and the allocator as their teams_info
\* argument, with any weekly_capacity
GivenTeamsInfo ==
    /\ pc = "sorted"
    /\ \E capacity \in GivenCapacities :
          teams_info' =
              [i \in DOMAIN capacity |->
                  [team_number |-> i, weekly_capacity |-> capacity[i]]]
    /\ pc' = "teams"
    /\ UNCHANGED <<df, sorted_df, weekly_batches, week_num, repo_list, teams,
                   current_team_idx, decisions, allocations, distribution_report,
                   files>>

\* main, step 4; total_tasks / 0 raises ZeroDivisionError, caught in main
CreateBatches ==
    /\ pc = "teams"
    /\ IF total_weekly_capacity(teams_info) = 0
       THEN /\ pc' = "error"
            /\ UNCHANGED weekly_batches
       ELSE /\ weekly_batches' = create_capacity_based_batches(sorted_df, teams_info)
            /\ pc' = "batched"
    /\ UNCHANGED <<df, sorted_df, teams_info, week_num, repo_list, teams,
                   current_team_idx, decisions, allocations, distribution_report,
                   files>>

\* main, step 5, lines 172-182: the base directory and the empty report
CreateFolderStructure ==
    /\ pc = "batched"
    /\ files' = files \cup {BaseDir}
    /\ week_num' = 1
    /\ distribution_report' = <<>>
    /\ pc' = "week"
    /\ UNCHANGED <<df, sorted_df, teams_info, weekly_batches, repo_list, teams,
                   current_team_idx, decisions, allocations>>

\* lines 184-191 and 103-131: the week folder, then the allocator's set-up.
\* groupby('repo_name') raises KeyError when the frame has no such column.
StartWeek ==
    /\ pc = "week"
    /\ week_num <= Len(weekly_batches)
    /\ files' = files \cup {WeekFolder(week_num)}
    /\ IF ~HasRepoColumn(sorted_df)
       THEN /\ pc' = "error"
            /\ UNCHANGED <<repo_list, teams, current_team_idx, decisions>>
       ELSE /\ repo_list' = BuildRepoList(weekly_batches[week_num])
            /\ teams' = InitTeams(teams_info)
            /\ current_team_idx' = 0
            /\ decisions' = <<>>
            /\ pc' = "assign"
    /\ UNCHANGED <<df, sorted_df, teams_info, weekly_batches, week_num, allocations,
                   distribution_report>>

\* lines 133-161: one turn of the loop over repo_list
AssignRepo ==
    /\ pc = "assign"
    /\ repo_list # <<>>
    /\ LET repo_info == Head(repo_list)
           sel == SelectTarget(teams, current_team_idx, repo_info.task_count)
       IN  /\ teams' = AssignRepository(teams, sel.target_team, repo_info)
           /\ current_team_idx' = sel.current_team_idx
           /\ decisions' = Append(decisions,
                  [repo_name |-> repo_info.repo_name,
                   task_count |-> repo_info.task_count,
                   min_serial |-> Min(Serials(repo_info.tasks)),
                   pointer |-> current_team_idx,
                   remaining |-> [i \in DOMAIN teams |-> teams[i].remaining_capacity],
                   branch |-> sel.branch,
                   target_team |-> sel.target_team,
                   pointer_after |-> sel.current_team_idx])
    /\ repo_list' = Tail(repo_list)
    /\ UNCHANGED <<pc, df, sorted_df, teams_info, weekly_batches, week_num,
                   allocations, distribution_report, files>>

\* lines 163-168 and 193-242: the final sort, the team files, the week's report
FinishWeek ==
    /\ pc = "assign"
    /\ repo_list = <<>>
    /\ LET returned == SortTeamTasks(teams)
       IN  /\ teams' = returned
           /\ allocations' = Append(allocations, returned)
           /\ distribution_report' = Append(distribution_report,
                  WeekDistribution(week_num, weekly_batches[week_num], teams_info,
                                   returned))
    /\ files' = files \cup {TeamFile(week_num, t) : t \in DOMAIN teams_info}
    /\ week_num' = week_num + 1
    /\ pc' = "week"
    /\ UNCHANGED <<df, sorted_df, teams_info, weekly_batches, repo_list,
                   current_team_idx, decisions>>

\* main, step 6: the Markdown report, after the last week
GenerateReport ==
    /\ pc = "week"
    /\ week_num > Len(weekly_batches)
    /\ files' = files \cup {ReportMd}
    /\ pc' = "done"
    /\ UNCHANGED <<df, sorted_df, teams_info, weekly_batches, week_num, repo_list,
                   teams, current_team_idx, decisions, allocations,
                   distribution_report>>

Next ==
    \/ JsonlToCsv
    \/ SortAndAddSerial
    \/ GetTeamInfo
    \/ GivenTeamsInfo
    \/ CreateBatches
    \/ CreateFolderStructure
    \/ StartWeek
    \/ AssignRepo
    \/ FinishWeek
    \/ GenerateReport

Spec == Init /\ [][Next]_vars

\* ------------------------------------------------------------------ claims
AllHaveRepo == \A i \in DOMAIN df : df[i].repo_name # NaN

\* where a record of the input ended up: week, team, place in the team's list
Placements(i) ==
    {<<w, t, k>> \in (DOMAIN allocations) \X (DOMAIN teams_info) \X (1 .. Len(sorted_df)) :
        /\ k \in DOMAIN allocations[w][t].tasks
        /\ allocations[w][t].tasks[k].pos = i
        /\ allocations[w][t].tasks[k].repo_name = df[i].repo_name}

AssignedTotal ==
    SumSeq([w \in DOMAIN allocations |->
               SumSeq([t \in DOMAIN allocations[w] |-> allocations[w][t].assigned_tasks])])

ListedTotal ==
    SumSeq([w \in DOMAIN allocations |->
               SumSeq([t \in DOMAIN allocations[w] |-> Len(allocations[w][t].tasks)])])

\* C1: Conservation.  When the run has gone through every batch of an input
\* of N task records (each with a repo_name), the assigned_tasks of all teams
\* and weeks add up to N and every task is in exactly one team's list in
\* exactly one week.
C1_Conservation ==
    (pc = "done" /\ AllHaveRepo) =>
        /\ AssignedTotal = Len(df)
        /\ ListedTotal = Len(df)
        /\ \A i \in DOMAIN df : Cardinality(Placements(i)) = 1

\* several weeks, an over-allocated team, and still nothing lost
C1_Witness ==
    /\ pc = "done"
    /\ AllHaveRepo
    /\ Len(allocations) >= 2
    /\ \E w \in DOMAIN allocations : \E t \in DOMAIN allocations[w] :
          allocations[w][t].remaining_capacity < 0
    /\ AssignedTotal = Len(df)

TeamsHolding(w, r) ==
    {t \in DOMAIN allocations[w] :
        \E k \in DOMAIN allocations[w][t].tasks : allocations[w][t].tasks[k].repo_name = r}

InBatch(w, r) == \E i \in DOMAIN weekly_batches[w] : weekly_batches[w][i].repo_name = r

\* C2: Repository atomicity.  In the allocation returned for a weekly batch
\* all tasks of the batch with one repo_name are in the list of exactly one
\* team; a repository found in two weeks straddles the batch boundaries
\* between them.
C2_RepositoryAtomicity ==
    \A w \in DOMAIN allocations : \A r \in Repos :
        /\ InBatch(w, r) =>
              /\ Cardinality(TeamsHolding(w, r)) = 1
              /\ \A i \in DOMAIN weekly_batches[w] :
                    weekly_batches[w][i].repo_name = r =>
                        \E t \in TeamsHolding(w, r) :
                            \E k \in DOMAIN allocations[w][t].tasks :
                                allocations[w][t].tasks[k] = weekly_batches[w][i]
        /\ ~InBatch(w, r) => TeamsHolding(w, r) = {}
        /\ \A v \in DOMAIN allocations :
              (v < w /\ InBatch(v, r) /\ InBatch(w, r)) =>
                  \A u \in v .. w - 1 :
                      /\ weekly_batches[u][Len(weekly_batches[u])].repo_name = r
                      /\ weekly_batches[u + 1][1].repo_name = r

\* a week in which two teams hold tasks, one of them a repository of several
\* tasks, and a repository that went on from the week before
C2_Witness ==
    \E w \in DOMAIN allocations : \E r \in Repos :
        /\ w > 1
        /\ InBatch(w - 1, r)
        /\ \E t \in TeamsHolding(w, r) :
              /\ Cardinality({k \in DOMAIN allocations[w][t].tasks :
                                 allocations[w][t].tasks[k].repo_name = r}) >= 2
              /\ \E u \in DOMAIN allocations[w] :
                    u # t /\ allocations[w][u].tasks # <<>>

\* the week whose allocation `teams` and `decisions` describe
Allocating == pc = "assign" \/ (pc = "week" /\ teams # <<>>)

\* decision d gave its team more than any team had room for
Overflowing(d) ==
    /\ d.branch = "fallback"
    /\ \A i \in DOMAIN d.remaining : d.remaining[i] < d.task_count

\* C3: Capacity bound.  A team's remaining_capacity goes below zero only by
\* a fallback assignment of a group larger than the remaining capacity of
\* every team at that moment; a team that got no such group has
\* assigned_tasks <= weekly_capacity and remaining_capacity >= 0.
C3_CapacityBound ==
    Allocating =>
        /\ \A k \in DOMAIN decisions :
              decisions[k].remaining[decisions[k].target_team + 1]
                    - decisions[k].task_count < 0
                 => Overflowing(decisions[k])
        /\ \A t \in DOMAIN teams :
              (\A k \in DOMAIN decisions :
                   decisions[k].target_team + 1 = t => ~Overflowing(decisions[k]))
                 => /\ teams[t].assigned_tasks <= teams_info[t].weekly_capacity
                    /\ teams[t].remaining_capacity >= 0
        /\ \A t \in DOMAIN teams :
              teams[t].assigned_tasks + teams[t].remaining_capacity
                  = teams_info[t].weekly_capacity

\* a week in which one team was over-allocated by the fallback while another
\* team holds tasks within its capacity
C3_Witness ==
    /\ Allocating
    /\ \E k \in DOMAIN decisions :
          /\ Overflowing(decisions[k])
          /\ teams[decisions[k].target_team + 1].remaining_capacity < 0
    /\ \E t \in DOMAIN teams :
          /\ teams[t].assigned_tasks > 0
          /\ teams[t].remaining_capacity >= 0

CountInBatch(w, r) ==
    Cardinality({i \in DOMAIN weekly_batches[w] : weekly_batches[w][i].repo_name = r})

CountInTeam(w, t, r) ==
    Cardinality({k \in DOMAIN allocations[w][t].tasks :
                    allocations[w][t].tasks[k].repo_name = r})

ExceedsEveryTeam(w, r) ==
    \A t \in DOMAIN teams_info : CountInBatch(w, r) > teams_info[t].weekly_capacity

\* C4: Overflow visibility.  When a repository group of a week's batch is
\* larger than every team's weekly_capacity, the run is not aborted, one team
\* holds the whole group, that team's remaining_capacity is negative, and the
\* week's report entry of that team shows the negative remaining_capacity
\* with more assigned_tasks than weekly_capacity.
C4_OverflowVisibility ==
    \A w \in DOMAIN allocations : \A r \in Repos :
        ExceedsEveryTeam(w, r) =>
            /\ pc # "error"
            /\ \E t \in DOMAIN allocations[w] :
                  /\ CountInTeam(w, t, r) = CountInBatch(w, r)
                  /\ \A u \in DOMAIN allocations[w] : u # t => CountInTeam(w, u, r) = 0
                  /\ allocations[w][t].remaining_capacity < 0
                  /\ distribution_report[w].teams[t].remaining_capacity < 0
                  /\ distribution_report[w].teams[t].assigned_tasks
                        > distribution_report[w].teams[t].weekly_capacity
                  /\ distribution_report[w].teams[t].remaining_capacity
                        = allocations[w][t].remaining_capacity

\* a finished run with a week whose batch held a group larger than every team
C4_Witness ==
    /\ pc = "done"
    /\ \E w \in DOMAIN allocations : \E r \in Repos :
          /\ ExceedsEveryTeam(w, r)
          /\ Len(teams_info) >= 2

\* C5: Zero total capacity is fatal before any batching and leaves no output:
\* the run ends in an error state with no batch built, no allocation made and
\* no file or directory created.
C5_ZeroCapacityNoOutput ==
    (pc = "error" /\ total_weekly_capacity(teams_info) = 0) =>
        /\ weekly_batches = <<>>
        /\ allocations = <<>>
        /\ distribution_report = <<>>
        /\ files = {}

\* C6: Missing repo_name is fatal at sequencing time: once the sequencer has
\* run on an input with a record that lacks repo_name the run is aborted, with
\* no serial number given, no roster collected, no batch and no allocation.
C6_MissingRepoNameFatal ==
    (~AllHaveRepo /\ pc \notin {"start", "loaded"}) =>
        /\ pc = "error"
        /\ \A i \in DOMAIN sorted_df : sorted_df[i].serial_no = NoSerial
        /\ teams_info = <<>>
        /\ weekly_batches = <<>>
        /\ allocations = <<>>

Batched == pc \in {"batched", "week", "assign", "done"}

RECURSIVE Concat(_)
Concat(ss) == IF ss = <<>> THEN <<>> ELSE Head(ss) \o Concat(Tail(ss))

\* C7: Weekly Batcher.  For N sequenced tasks and total_capacity > 0 there are
\* exactly ceil(N / total_capacity) batches, contiguous slices in serial order
\* whose concatenation is the whole sequence, each of size total_capacity but
\* the last, of size N mod total_capacity (total_capacity when that is 0);
\* no batch is empty.
C7_WeeklyBatcher ==
    Batched =>
        LET total == total_weekly_capacity(teams_info)
            N == Len(sorted_df)
            W == Len(weekly_batches)
        IN  /\ total > 0
            /\ W * total >= N
            /\ (W > 0 => (W - 1) * total < N)
            /\ Concat(weekly_batches) = sorted_df
            /\ \A k \in 1 .. W :
                  /\ weekly_batches[k] # <<>>
                  /\ k < W => Len(weekly_batches[k]) = total
                  /\ k = W => Len(weekly_batches[k]) =
                                 IF N % total = 0 THEN total ELSE N % total
                  /\ weekly_batches[k] =
                         SubSeq(sorted_df, (k - 1) * total + 1,
                                (k - 1) * total + Len(weekly_batches[k]))

\* three or more batches, the last one shorter than the others
C7_Witness ==
    /\ Batched
    /\ Len(weekly_batches) >= 3
    /\ Len(weekly_batches[Len(weekly_batches)]) < total_weekly_capacity(teams_info)
    /\ total_weekly_capacity(teams_info) >= 2

Sequenced == pc \notin {"start", "loaded"}

\* C8: Serial Sequencer.  For N records that all carry repo_name the result
\* holds the same N records ordered by (repo_name, input position): a stable
\* sort, with serial_no = 1..N in that order.
C8_StableSequencer ==
    (Sequenced /\ AllHaveRepo) =>
        /\ Len(sorted_df) = Len(df)
        /\ \A i \in DOMAIN sorted_df :
              /\ HasRepoColumn(df) => sorted_df[i].serial_no = i
              /\ sorted_df[i].pos \in DOMAIN df
              /\ sorted_df[i].repo_name = df[sorted_df[i].pos].repo_name
        /\ \A i, j \in DOMAIN sorted_df :
              i < j =>
                 \/ sorted_df[i].repo_name < sorted_df[j].repo_name
                 \/ /\ sorted_df[i].repo_name = sorted_df[j].repo_name
                    /\ sorted_df[i].pos < sorted_df[j].pos

\* What the sequencer does guarantee for such an input: the same records,
\* each once, in ascending repo_name order, numbered 1..N, so that every
\* repository has one unbroken block of serial numbers.
SequencerSortsAndNumbers ==
    (Sequenced /\ AllHaveRepo) =>
        /\ Len(sorted_df) = Len(df)
        /\ {sorted_df[i].pos : i \in DOMAIN sorted_df} = DOMAIN df
        /\ \A i \in DOMAIN sorted_df :
              /\ HasRepoColumn(df) => sorted_df[i].serial_no = i
              /\ sorted_df[i].repo_name = df[sorted_df[i].pos].repo_name
        /\ \A i, j \in DOMAIN sorted_df :
              i < j => sorted_df[i].repo_name <= sorted_df[j].repo_name

\* C9: Serial number sequence is maintained across teams: in every week's
\* allocation, of two teams that both got tasks the one with the lower index
\* holds only lower serial numbers, so the teams' serial ranges do not overlap.
C9_SerialSequenceAcrossTeams ==
    \A w \in DOMAIN allocations :
        \A i, j \in DOMAIN allocations[w] :
            (i < j /\ allocations[w][i].tasks # <<>> /\ allocations[w][j].tasks # <<>>) =>
                /\ Max(Serials(allocations[w][i].tasks))
                      < Min(Serials(allocations[w][j].tasks))
                /\ allocations[w][i].serial_range.max
                      < allocations[w][j].serial_range.min

AssignedBy(t) ==
    SumSeq([k \in DOMAIN decisions |->
               IF decisions[k].target_team + 1 = t THEN decisions[k].task_count ELSE 0])

Fits(d, i) == d.remaining[i + 1] >= d.task_count

Ascending(tasks) ==
    \A i, j \in DOMAIN tasks : i < j => tasks[i].serial_no < tasks[j].serial_no

\* the bookkeeping of one team agrees with its task list
ExactBookkeeping(team) ==
    /\ team.assigned_tasks = Len(team.tasks)
    /\ team.tasks # <<>> =>
          /\ team.serial_range.min = Min(Serials(team.tasks))
          /\ team.serial_range.max = Max(Serials(team.tasks))
          /\ team.serial_range.min # None
    /\ team.tasks = <<>> =>
          /\ team.serial_range.min = None
          /\ team.serial_range.max = None
          /\ team.assigned_tasks = 0

\* C11: Serial-range bookkeeping is exact.  For every team with tasks,
\* serial_range min and max are the smallest and the largest serial_no of its
\* list, also after a fallback assignment that follows a group given to
\* another team; the list is in ascending serial order before the final sort
\* already; a team without tasks has None for both and assigned_tasks 0.  The
\* week's report carries the same range.
C11_SerialRangeExact ==
    /\ Allocating =>
          \A t \in DOMAIN teams :
              /\ ExactBookkeeping(teams[t])
              /\ Ascending(teams[t].tasks)
    /\ \A w \in DOMAIN allocations : \A t \in DOMAIN allocations[w] :
          /\ ExactBookkeeping(allocations[w][t])
          /\ Ascending(allocations[w][t].tasks)
          /\ distribution_report[w].teams[t].serial_range
                = allocations[w][t].serial_range

\* before the final sort: a team got a group, another team the next one, and
\* the first team a later one through the fallback
C11_Witness ==
    /\ pc = "assign"
    /\ repo_list = <<>>
    /\ \E i, j, k \in DOMAIN decisions :
          /\ i < j /\ j < k
          /\ decisions[i].target_team = decisions[k].target_team
          /\ decisions[j].target_team # decisions[k].target_team
          /\ decisions[k].branch = "fallback"
          /\ LET team == teams[decisions[k].target_team + 1]
             IN  /\ team.serial_range.min = decisions[i].min_serial
                 /\ team.serial_range.max = Max(Serials(team.tasks))

====
